---- MODULE Spec2Model ----
(***************************************************************************)
(* Model of pkg/model/generate.go of database-struct: the filter factory   *)
(* NewFilter, the struct emitter goStruct / goFields / goType and the      *)
(* driver Generate with its filesystem effects.                            *)
(*                                                                         *)
(* Text is a sequence of chunks.  Data coming from the catalog or the      *)
(* configuration (table names, prefixes, column names, comments) is held   *)
(* one character per chunk; a string literal of the source is one chunk.   *)
(***************************************************************************)
EXTENDS Naturals, Sequences, FiniteSets, TLC

VARIABLES nf, gf, options, tables, pc, i, headerComment, fs, result, now, second, first,
          log, renders, fsAtCall

vars == <<nf, gf, options, tables, pc, i, headerComment, fs, result, now, second, first,
          log, renders, fsAtCall>>

genVars ==
    <<options, tables, pc, i, headerComment, fs, result, now, second, first, log, renders,
      fsAtCall>>

(***************************************************************************)
(* Bounds                                                                  *)
(***************************************************************************)
MaxLen == 3

MaxFields == 2

MaxTables == 2

MaxTime == 1

(***************************************************************************)
(* Strings                                                                 *)
(***************************************************************************)
RECURSIVE SeqsUpTo(_, _)
SeqsUpTo(S, n) ==
    IF n = 0 THEN {<<>>}
    ELSE LET shorter == SeqsUpTo(S, n - 1)
         IN  shorter \cup {Append(s, c) : s \in shorter, c \in S}

Range(s) == {s[k] : k \in 1..Len(s)}

\* unicode.IsSpace on the characters the inputs are drawn from
IsSpace(c) == c \in {" ", "\t", "\n", "\r"}

RECURSIVE TrimLeft(_)
TrimLeft(s) ==
    IF s # <<>> /\ IsSpace(Head(s)) THEN TrimLeft(Tail(s)) ELSE s

RECURSIVE TrimRight(_)
TrimRight(s) ==
    IF s # <<>> /\ IsSpace(s[Len(s)]) THEN TrimRight(SubSeq(s, 1, Len(s) - 1)) ELSE s

\* strings.TrimSpace
TrimSpace(s) == TrimRight(TrimLeft(s))

HasPrefix(s, p) == Len(p) <= Len(s) /\ SubSeq(s, 1, Len(p)) = p

\* strings.TrimPrefix
TrimPrefix(s, p) == IF HasPrefix(s, p) THEN SubSeq(s, Len(p) + 1, Len(s)) ELSE s

(***************************************************************************)
(* NewFilter                                                               *)
(***************************************************************************)
FilterChars == {" ", "\t", "t", "_"}

FilterArgs == SeqsUpTo(FilterChars, MaxLen)

NilFilter == [isNil |-> TRUE, TablePrefix |-> <<>>, TableNamePattern |-> <<>>]

NewFilterKeepsBlank(prefix, pattern) ==
    IF pattern = <<>>
    THEN NilFilter
    ELSE [isNil |-> FALSE,
          TablePrefix |-> TrimSpace(prefix),
          TableNamePattern |-> TrimSpace(pattern)]

NewFilter(prefix, pattern) ==
    LET p == TrimSpace(prefix)
        q == TrimSpace(pattern)
    IN  IF q = <<>>
        THEN NilFilter
        ELSE [isNil |-> FALSE, TablePrefix |-> p, TableNamePattern |-> q]

NfIdle == [pc |-> "idle", prefix |-> <<>>, pattern |-> <<>>, ret |-> NilFilter]

NewFilterCall ==
    /\ nf.pc = "call"
    /\ nf' = [nf EXCEPT !.pc = "returned", !.ret = NewFilter(nf.prefix, nf.pattern)]
    /\ UNCHANGED <<gf>>
    /\ UNCHANGED genVars

(***************************************************************************)
(* Naming helpers (TitleCase, CamelCase, OneLine live outside generate.go) *)
(***************************************************************************)
Upper(c) ==
    CASE c = "t" -> "T"
      [] c = "o" -> "O"
      [] c = "x" -> "X"
      [] c = "i" -> "I"
      [] c = "d" -> "D"
      [] c = "u" -> "U"
      [] OTHER -> c

RECURSIVE Casing(_, _)
Casing(s, up) ==
    IF s = <<>> THEN <<>>
    ELSE IF Head(s) = "_" THEN Casing(Tail(s), TRUE)
    ELSE <<IF up THEN Upper(Head(s)) ELSE Head(s)>> \o Casing(Tail(s), FALSE)

TitleCase(s) == Casing(s, TRUE)

CamelCase(s) == Casing(s, FALSE)

OneLine(s) == [k \in 1..Len(s) |-> IF s[k] \in {"\n", "\r"} THEN " " ELSE s[k]]

(***************************************************************************)
(* jen statements: a statement is a sequence of items                      *)
(***************************************************************************)
NoTag == [k \in {} |-> <<>>]

Item(kind, text) == [kind |-> kind, text |-> text, tag |-> NoTag, sub |-> <<>>]

TagItem(tag) == [kind |-> "Tag", text |-> <<>>, tag |-> tag, sub |-> <<>>]

GroupItem(kind, sub) == [kind |-> kind, text |-> <<>>, tag |-> NoTag, sub |-> sub]

MapPut(m, k, v) == [x \in DOMAIN m \cup {k} |-> IF x = k THEN v ELSE m[x]]

(***************************************************************************)
(* goType                                                                  *)
(***************************************************************************)
goTypeGuesses(opts, field, c) ==
    IF field.GoType \in {"int", "uint", "int8", "uint8", "int16", "uint16", "int32",
                         "uint32", "int64", "uint64", "string", "float32", "float64"}
    THEN [panic |-> FALSE, c |-> Append(c, Item("Type", <<field.GoType>>))]
    ELSE IF field.GoType = "time.Time"
    THEN [panic |-> FALSE, c |-> Append(c, Item("Qual", <<"time", ".", "Time">>))]
    ELSE IF field.GoType = "[]byte"
    THEN [panic |-> FALSE, c |-> c \o <<Item("Op", <<"[]">>), Item("Type", <<"byte">>)>>]
    ELSE [panic |-> FALSE, c |-> Append(c, Item("Type", <<"interface{}">>))]

goTypeResetsStatement(opts, field, c) ==
    IF field.GoType = "time.Time"
    THEN [panic |-> FALSE, c |-> <<c[1], Item("Qual", <<"time", ".", "Time">>)>>]
    ELSE goTypeGuesses(opts, field, c)

goType(opts, field, c) ==
    CASE field.GoType = "int" -> [panic |-> FALSE, c |-> Append(c, Item("Type", <<"int">>))]
      [] field.GoType = "uint" -> [panic |-> FALSE, c |-> Append(c, Item("Type", <<"uint">>))]
      [] field.GoType = "int8" -> [panic |-> FALSE, c |-> Append(c, Item("Type", <<"int8">>))]
      [] field.GoType = "uint8" -> [panic |-> FALSE, c |-> Append(c, Item("Type", <<"uint8">>))]
      [] field.GoType = "int16" -> [panic |-> FALSE, c |-> Append(c, Item("Type", <<"int16">>))]
      [] field.GoType = "uint16" -> [panic |-> FALSE, c |-> Append(c, Item("Type", <<"uint16">>))]
      [] field.GoType = "int32" -> [panic |-> FALSE, c |-> Append(c, Item("Type", <<"int32">>))]
      [] field.GoType = "uint32" -> [panic |-> FALSE, c |-> Append(c, Item("Type", <<"uint32">>))]
      [] field.GoType = "int64" -> [panic |-> FALSE, c |-> Append(c, Item("Type", <<"int64">>))]
      [] field.GoType = "uint64" -> [panic |-> FALSE, c |-> Append(c, Item("Type", <<"uint64">>))]
      [] field.GoType = "string" -> [panic |-> FALSE, c |-> Append(c, Item("Type", <<"string">>))]
      [] field.GoType = "time.Time" ->
            [panic |-> FALSE, c |-> Append(c, Item("Qual", <<"time", ".", "Time">>))]
      [] field.GoType = "float32" -> [panic |-> FALSE, c |-> Append(c, Item("Type", <<"float32">>))]
      [] field.GoType = "float64" -> [panic |-> FALSE, c |-> Append(c, Item("Type", <<"float64">>))]
      [] field.GoType = "[]byte" ->
            [panic |-> FALSE, c |-> c \o <<Item("Op", <<"[]">>), Item("Type", <<"byte">>)>>]
      [] OTHER -> [panic |-> TRUE, c |-> <<>>]

(***************************************************************************)
(* goFields                                                                *)
(***************************************************************************)
gormTagKeyBeforeNull(f) ==
    <<"column:">> \o f.Field \o <<";type:">> \o f.Type
        \o (IF f.Default # <<>> THEN <<";default:">> \o f.Default ELSE <<>>)
        \o (IF f.Key = "PRI" THEN <<";primary_key">> ELSE <<>>)
        \o (IF ~f.Nullable THEN <<";not null">> ELSE <<>>)

\* lines 191-200: the text stored under the "gorm" key
gormTag(f) ==
    LET t0 == <<"column:">> \o f.Field \o <<";type:">> \o f.Type
        t1 == IF f.Default # <<>> THEN t0 \o <<";default:">> \o f.Default ELSE t0
        t2 == IF ~f.Nullable THEN t1 \o <<";not null">> ELSE t1
        t3 == IF f.Key = "PRI" THEN t2 \o <<";primary_key">> ELSE t2
    IN  t3

\* lines 183-214: one iteration of the loop, the statement built for field f
goField(opts, f) ==
    LET c0 == <<Item("Id", TitleCase(f.Field))>>
        c1 == IF f.Nullable THEN Append(c0, Item("Op", <<"*">>)) ELSE c0
        t  == goType(opts, f, c1)
        tag0 == NoTag
        tag1 == IF opts.GenGormTag THEN MapPut(tag0, "gorm", gormTag(f)) ELSE tag0
        tag2 == IF opts.GenJsonTag THEN MapPut(tag1, "json", CamelCase(f.Field)) ELSE tag1
        c3 == IF DOMAIN tag2 # {} THEN Append(t.c, TagItem(tag2)) ELSE t.c
        c4 == IF f.Comment # <<>> THEN Append(c3, Item("Comment", OneLine(f.Comment))) ELSE c3
    IN  IF t.panic THEN [panic |-> TRUE, c |-> <<>>] ELSE [panic |-> FALSE, c |-> c4]

RECURSIVE goFieldsLoop(_, _, _, _)
goFieldsLoop(opts, fields, k, cs) ==
    IF k > Len(fields) THEN [panic |-> FALSE, cs |-> cs]
    ELSE LET r == goField(opts, fields[k])
         IN  IF r.panic THEN [panic |-> TRUE, cs |-> <<>>]
             ELSE goFieldsLoop(opts, fields, k + 1, Append(cs, r.c))

goFieldsPrepends(opts, fields) ==
    LET r == goFieldsLoop(opts, fields, 1, <<>>)
    IN  IF r.panic THEN r
        ELSE [panic |-> FALSE, cs |-> [k \in 1..Len(r.cs) |-> r.cs[Len(r.cs) + 1 - k]]]

goFields(opts, fields) == goFieldsLoop(opts, fields, 1, <<>>)

(***************************************************************************)
(* goStruct                                                                *)
(***************************************************************************)
Line == Item("Line", <<>>)

RECURSIVE RenderStmt(_), RenderList(_, _)

\* the chunk standing for the back quote that delimits a struct tag
BackQuote == "BACKQUOTE"

RenderTagInMapOrder(tag) ==
    LET g == IF "gorm" \in DOMAIN tag THEN <<"gorm:\"">> \o tag["gorm"] \o <<"\"">> ELSE <<>>
        j == IF "json" \in DOMAIN tag THEN <<"json:\"">> \o tag["json"] \o <<"\"">> ELSE <<>>
        sep == IF g # <<>> /\ j # <<>> THEN <<" ">> ELSE <<>>
    IN  IF second
        THEN <<BackQuote>> \o j \o sep \o g \o <<BackQuote>>
        ELSE <<BackQuote>> \o g \o sep \o j \o <<BackQuote>>

\* the tag of a field as jen prints it, keys in sorted order
RenderTag(tag) ==
    LET g == IF "gorm" \in DOMAIN tag THEN <<"gorm:\"">> \o tag["gorm"] \o <<"\"">> ELSE <<>>
        j == IF "json" \in DOMAIN tag THEN <<"json:\"">> \o tag["json"] \o <<"\"">> ELSE <<>>
        sep == IF g # <<>> /\ j # <<>> THEN <<" ">> ELSE <<>>
    IN  <<BackQuote>> \o g \o sep \o j \o <<BackQuote>>

RenderItem(it) ==
    CASE it.kind = "Comment" -> <<"// ">> \o it.text
      [] it.kind = "Line" -> <<"\n">>
      [] it.kind = "Lit" -> <<"\"">> \o it.text \o <<"\"">>
      [] it.kind = "Tag" -> RenderTag(it.tag)
      [] it.kind = "Struct" -> <<"struct", "{", "\n">> \o RenderList(it.sub, <<"\n">>) \o <<"}">>
      [] it.kind = "Params" -> <<"(">> \o RenderList(it.sub, <<",">>) \o <<")">>
      [] it.kind = "Return" -> <<"return ">> \o RenderList(it.sub, <<",">>)
      [] it.kind = "Block" -> <<"{", "\n">> \o RenderList(it.sub, <<"\n">>) \o <<"}">>
      [] OTHER -> it.text

RenderStmt(c) ==
    IF c = <<>> THEN <<>> ELSE RenderItem(Head(c)) \o <<" ">> \o RenderStmt(Tail(c))

RenderList(stmts, sep) ==
    IF stmts = <<>> THEN <<>>
    ELSE RenderStmt(Head(stmts)) \o sep \o RenderList(Tail(stmts), sep)

\* GoString of a jen statement
GoString(c) == RenderStmt(c)

TableNameAccessor(name, table) ==
    <<Line, Line,
      Item("Comment", <<"TableName set table of ">> \o table.Name
            \o <<", ref document see https://gorm.io/docs/conventions.html">>),
      Line,
      Item("Keyword", <<"func">>),
      GroupItem("Params", << <<Item("Id", name)>> >>),
      Item("Id", <<"TableName">>),
      GroupItem("Return", << <<Item("Type", <<"string">>)>> >>),
      GroupItem("Block", << <<GroupItem("Return", << <<Item("Lit", table.Name)>> >>)>> >>)>>

StructName(table) == TitleCase(TrimPrefix(table.Name, table.Prefix))

goStructAlwaysNames(opts, table) ==
    LET name == StructName(table)
        fs0 == goFields(opts, table.Fields)
        c == <<Item("Comment", name \o <<" table: ">> \o table.Name), Line,
               Item("Keyword", <<"type">>), Item("Id", name), GroupItem("Struct", fs0.cs)>>
              \o <<Line, Line,
                   Item("Keyword", <<"func">>),
                   GroupItem("Params", << <<Item("Id", name)>> >>),
                   Item("Id", <<"TableName">>),
                   GroupItem("Return", << <<Item("Type", <<"string">>)>> >>),
                   GroupItem("Block", << <<GroupItem("Return",
                        << <<Item("Lit", TrimPrefix(table.Name, table.Prefix))>> >>)>> >>)>>
    IN  IF fs0.panic THEN [panic |-> TRUE, c |-> <<>>] ELSE [panic |-> FALSE, c |-> c]

\* the statement goStruct builds for the table, or the panic raised by goType
goStruct(opts, table) ==
    LET name == StructName(table)
        c0 == <<Item("Comment", name \o <<" table: ">> \o table.Name), Line>>
        c1 == IF table.Comment # <<>>
              THEN c0 \o <<Item("Comment", OneLine(table.Comment)), Line>>
              ELSE c0
        fs0 == goFields(opts, table.Fields)
        c2 == c1 \o <<Item("Keyword", <<"type">>), Item("Id", name), GroupItem("Struct", fs0.cs)>>
        c3 == IF table.Prefix # <<>> THEN c2 \o TableNameAccessor(name, table) ELSE c2
    IN  IF fs0.panic THEN [panic |-> TRUE, c |-> <<>>] ELSE [panic |-> FALSE, c |-> c3]

(***************************************************************************)
(* Inputs                                                                  *)
(***************************************************************************)
GoTypes == {"int", "uint", "int8", "uint8", "int16", "uint16", "int32", "uint32", "int64",
            "uint64", "string", "time.Time", "float32", "float64", "[]byte", "json"}

FieldUniverse ==
    [Field : {<<"i", "d">>, <<"u", "_", "i", "d">>},
     Type : {<<"i", "n", "t">>},
     GoType : GoTypes,
     Nullable : BOOLEAN,
     Default : {<<>>, <<"0">>},
     Key : {"", "PRI", "UNI"},
     Comment : {<<>>, <<"c", "\n", "d">>}]

FieldId ==
    [Field |-> <<"i", "d">>, Type |-> <<"i", "n", "t">>, GoType |-> "int", Nullable |-> FALSE,
     Default |-> <<"0">>, Key |-> "PRI", Comment |-> <<>>]

FieldTime ==
    [Field |-> <<"t", "_", "o">>, Type |-> <<"d", "t">>, GoType |-> "time.Time",
     Nullable |-> TRUE, Default |-> <<>>, Key |-> "", Comment |-> <<"c", "\n", "d">>]

FieldJson ==
    [Field |-> <<"x">>, Type |-> <<"j", "s", "o", "n">>, GoType |-> "json", Nullable |-> TRUE,
     Default |-> <<>>, Key |-> "", Comment |-> <<>>]

SmallFields == {FieldId, FieldTime, FieldJson}

\* field lists of at most MaxFields columns: one arbitrary column among common ones
FieldLists ==
    LET around == SeqsUpTo(SmallFields, MaxFields - 1)
        sides == {pp \in around \X around : Len(pp[1]) + Len(pp[2]) <= MaxFields - 1}
    IN  {<<>>} \cup {pp[1] \o <<f>> \o pp[2] : f \in FieldUniverse, pp \in sides}

TagOptions == [GenGormTag : BOOLEAN, GenJsonTag : BOOLEAN]

TableFields(name) ==
    CASE name = <<"t", "_", "o">> -> <<FieldId, FieldTime>>
      [] name = <<"o">> -> <<FieldId>>
      [] name = <<"d">> -> <<>>
      [] OTHER -> <<FieldJson>>

TableComment(name) == IF name = <<"t", "_", "o">> THEN <<"c", "\n", "d">> ELSE <<>>

TablePrefixes(name) ==
    IF name \in {<<"t", "_", "o">>, <<"o">>} THEN {<<>>, <<"t", "_">>} ELSE {<<>>}

TableUniverse ==
    UNION {{[Name |-> n, Prefix |-> p, Comment |-> TableComment(n), Fields |-> TableFields(n),
             GoStruct |-> <<>>, goStatement |-> <<>>] : p \in TablePrefixes(n)} :
            n \in {<<"t", "_", "o">>, <<"o">>, <<"d">>, <<"x">>}}

\* the catalog names every table once
TableLists ==
    {ts \in SeqsUpTo(TableUniverse, MaxTables) :
        \A a, b \in 1..Len(ts) : ts[a].Name = ts[b].Name => a = b}

OptionsUniverse ==
    [DbType : {"mysql"}, GenGormTag : BOOLEAN, GormV1 : {FALSE}, GenJsonTag : BOOLEAN,
     HtmlFile : {<<>>, <<"r">>}, ModelDir : {<<>>, <<"m">>},
     ModelPackageName : {<<>>, <<"p">>}, ModelSingleFile : BOOLEAN, Verbose : {FALSE}]

(***************************************************************************)
(* goFields applied to a field list                                        *)
(***************************************************************************)
GfIdle == [pc |-> "idle", opts |-> [GenGormTag |-> FALSE, GenJsonTag |-> FALSE],
           fields |-> <<>>, panic |-> FALSE, cs |-> <<>>]

goFieldsCall ==
    /\ gf.pc = "call"
    /\ LET r == goFields(gf.opts, gf.fields)
       IN  gf' = [gf EXCEPT !.pc = IF r.panic THEN "panicked" ELSE "returned",
                            !.panic = r.panic, !.cs = r.cs]
    /\ UNCHANGED <<nf>>
    /\ UNCHANGED genVars

(***************************************************************************)
(* Generate                                                                *)
(***************************************************************************)
NoHeader == [text |-> <<>>, time |-> 0]

NoFiles == [path \in {} |-> <<>>]

EmptyFs == [dirs |-> {}, files |-> NoFiles]

NoSnapshot == [GoStruct |-> <<>>, goStatement |-> <<>>, fs |-> EmptyFs, result |-> "none"]

HtmlReport(tbls, t) ==
    [kind |-> "html", complete |-> TRUE, pkg |-> <<>>, header |-> [text |-> <<>>, time |-> t],
     decls |-> <<>>, tables |-> tbls, tableCount |-> Len(tbls)]

\* what a failed write leaves behind: the file truncated by the open
Truncated(kind) ==
    [kind |-> kind, complete |-> FALSE, pkg |-> <<>>, header |-> NoHeader,
     decls |-> <<>>, tables |-> <<>>, tableCount |-> 0]

GoFile(pkgName, header, decls) ==
    [kind |-> "go", complete |-> TRUE, pkg |-> pkgName, header |-> header,
     decls |-> decls, tables |-> <<>>, tableCount |-> 0]

PkgName == IF options.ModelPackageName = <<>> THEN <<"model">> ELSE options.ModelPackageName

\* filepath.Join(options.ModelDir, fileName)
Join(dir, fileName) == dir \o <<"/">> \o fileName

FileName(table) == TrimPrefix(table.Name, table.Prefix) \o <<".go">>

RECURSIVE SingleFileDecls(_)
SingleFileDecls(tbls) ==
    IF tbls = <<>> THEN <<>>
    ELSE <<Head(tbls).goStatement, <<Line>>>> \o SingleFileDecls(Tail(tbls))

WriteFile(path, content) ==
    [fs EXCEPT !.files = [q \in DOMAIN fs.files \cup {path} |->
                            IF q = path THEN content ELSE fs.files[q]]]

SetRenderingStripsName(tbls, k, c) ==
    [tbls EXCEPT ![k].GoStruct = GoString(c), ![k].goStatement = c,
                 ![k].Name = TrimPrefix(tbls[k].Name, tbls[k].Prefix)]

\* lines 176-177
SetRendering(tbls, k, c) == [tbls EXCEPT ![k].GoStruct = GoString(c), ![k].goStatement = c]

Returns(r) == pc' = "returned" /\ result' = r

\* lines 70-72, one iteration; the panic of goType unwinds Generate
RenderTable ==
    /\ pc = "render"
    /\ LET r == goStruct(options, tables[i])
       IN  IF r.panic
           THEN /\ pc' = "panicked"
                /\ result' = "panic"
                /\ UNCHANGED <<tables, i, renders>>
           ELSE /\ tables' = SetRendering(tables, i, r.c)
                /\ renders' = [renders EXCEPT ![i] = @ + 1]
                /\ i' = IF i = Len(tables) THEN 1 ELSE i + 1
                /\ pc' = IF i = Len(tables) THEN "html" ELSE "render"
                /\ UNCHANGED result
    /\ UNCHANGED <<fsAtCall, nf, gf, options, headerComment, fs, now, second, first, log>>

\* line 74, HtmlFile empty
SkipHtml ==
    /\ pc = "html"
    /\ options.HtmlFile = <<>>
    /\ pc' = "model"
    /\ UNCHANGED <<fsAtCall, nf, gf, options, tables, i, headerComment, fs, result, now, second, first,
                   log, renders>>

\* lines 89-92
HtmlOpenFails ==
    /\ pc = "html"
    /\ options.HtmlFile # <<>>
    /\ \E t \in now..MaxTime : now' = t
    /\ Returns("err:open")
    /\ UNCHANGED <<fsAtCall, nf, gf, options, tables, i, headerComment, fs, second, first, log, renders>>

\* lines 94-97
HtmlExecuteFails ==
    /\ pc = "html"
    /\ options.HtmlFile # <<>>
    /\ \E t \in now..MaxTime : now' = t
    /\ fs' = WriteFile(options.HtmlFile, Truncated("html"))
    /\ log' = Append(log, [op |-> "html", path |-> options.HtmlFile])
    /\ Returns("err:execute")
    /\ UNCHANGED <<fsAtCall, nf, gf, options, tables, i, headerComment, second, first, renders>>

\* lines 75-98
WriteHtmlBeforeRendering ==
    /\ pc \in {"render", "html"}
    /\ options.HtmlFile # <<>>
    /\ \A e \in Range(log) : e.op # "html"
    /\ \E t \in now..MaxTime :
        /\ now' = t
        /\ fs' = WriteFile(options.HtmlFile, HtmlReport(tables, t))
    /\ log' = Append(log, [op |-> "html", path |-> options.HtmlFile])
    /\ pc' = IF pc = "html" THEN "model" ELSE pc
    /\ UNCHANGED <<fsAtCall, nf, gf, options, tables, i, headerComment, result, second, first, renders>>

WriteHtml ==
    /\ pc = "html"
    /\ options.HtmlFile # <<>>
    /\ \E t \in now..MaxTime :
        /\ now' = t
        /\ fs' = WriteFile(options.HtmlFile, HtmlReport(tables, t))
    /\ log' = Append(log, [op |-> "html", path |-> options.HtmlFile])
    /\ pc' = "model"
    /\ UNCHANGED <<fsAtCall, nf, gf, options, tables, i, headerComment, result, second, first, renders>>

\* line 101, ModelDir empty: lines 140-144
SkipModel ==
    /\ pc = "model"
    /\ options.ModelDir = <<>>
    /\ Returns("nil")
    /\ UNCHANGED <<fsAtCall, nf, gf, options, tables, i, headerComment, fs, now, second, first, log,
                   renders>>

\* lines 102-112, MkdirAll fails
MkdirAllFails ==
    /\ pc = "model"
    /\ options.ModelDir # <<>>
    /\ options.ModelDir \notin fs.dirs
    /\ \E t \in now..MaxTime :
        /\ now' = t
        /\ headerComment' = [text |-> <<"code generated by database-struct @">>, time |-> t]
    /\ Returns("err:mkdir")
    /\ UNCHANGED <<fsAtCall, nf, gf, options, tables, i, fs, second, first, log, renders>>

\* lines 102-115, the directory exists or is created
EnsureModelDir ==
    /\ pc = "model"
    /\ options.ModelDir # <<>>
    /\ \E t \in now..MaxTime :
        /\ now' = t
        /\ headerComment' = [text |-> <<"code generated by database-struct @">>, time |-> t]
    /\ IF options.ModelDir \in fs.dirs
       THEN UNCHANGED <<fs, log>>
       ELSE /\ fs' = [fs EXCEPT !.dirs = @ \cup {options.ModelDir}]
            /\ log' = Append(log, [op |-> "mkdir", path |-> options.ModelDir])
    /\ IF ~options.ModelSingleFile /\ tables = <<>>
       THEN Returns("nil")
       ELSE pc' = "save" /\ UNCHANGED result
    /\ i' = 1
    /\ UNCHANGED <<fsAtCall, nf, gf, options, tables, second, first, renders>>

\* lines 116-125
SaveSingleFile ==
    /\ pc = "save"
    /\ options.ModelSingleFile
    /\ LET path == Join(options.ModelDir, <<"model.go">>)
       IN  /\ fs' = WriteFile(path, GoFile(PkgName, headerComment, SingleFileDecls(tables)))
           /\ log' = Append(log, [op |-> "save", path |-> path])
    /\ Returns("nil")
    /\ UNCHANGED <<fsAtCall, nf, gf, options, tables, i, headerComment, now, second, first, renders>>

\* lines 122-125, Save fails: the file is untouched or left truncated
SaveSingleFileFails ==
    /\ pc = "save"
    /\ options.ModelSingleFile
    /\ LET path == Join(options.ModelDir, <<"model.go">>)
       IN  \/ UNCHANGED <<fs, log>>
           \/ /\ fs' = WriteFile(path, Truncated("go"))
              /\ log' = Append(log, [op |-> "save", path |-> path])
    /\ Returns("err:save")
    /\ UNCHANGED <<fsAtCall, nf, gf, options, tables, i, headerComment, now, second, first, renders>>

\* lines 127-136, one iteration
SaveTableFile ==
    /\ pc = "save"
    /\ ~options.ModelSingleFile
    /\ LET path == Join(options.ModelDir, FileName(tables[i]))
       IN  /\ fs' = WriteFile(path, GoFile(PkgName, headerComment, <<tables[i].goStatement>>))
           /\ log' = Append(log, [op |-> "save", path |-> path])
    /\ IF i = Len(tables)
       THEN Returns("nil") /\ UNCHANGED i
       ELSE i' = i + 1 /\ UNCHANGED <<pc, result>>
    /\ UNCHANGED <<fsAtCall, nf, gf, options, tables, headerComment, now, second, first, renders>>

\* lines 132-135, Save fails: the file is untouched or left truncated
SaveTableFileFails ==
    /\ pc = "save"
    /\ ~options.ModelSingleFile
    /\ LET path == Join(options.ModelDir, FileName(tables[i]))
       IN  \/ UNCHANGED <<fs, log>>
           \/ /\ fs' = WriteFile(path, Truncated("go"))
              /\ log' = Append(log, [op |-> "save", path |-> path])
    /\ Returns("err:save")
    /\ UNCHANGED <<fsAtCall, nf, gf, options, tables, i, headerComment, now, second, first, renders>>

\* the caller runs Generate again on the same tables and the same Options
GenerateAgain ==
    /\ pc = "returned"
    /\ ~second
    /\ second' = TRUE
    /\ first' = [GoStruct |-> [k \in 1..Len(tables) |-> tables[k].GoStruct],
                 goStatement |-> [k \in 1..Len(tables) |-> tables[k].goStatement],
                 fs |-> fs, result |-> result]
    /\ pc' = IF tables = <<>> THEN "html" ELSE "render"
    /\ i' = 1
    /\ result' = "none"
    /\ log' = <<>>
    /\ renders' = [k \in 1..Len(tables) |-> 0]
    /\ headerComment' = NoHeader
    /\ fsAtCall' = fs
    /\ UNCHANGED <<nf, gf, options, tables, fs, now>>

GenIdle ==
    /\ options = CHOOSE o \in OptionsUniverse : TRUE
    /\ tables = <<>>
    /\ pc = "idle"
    /\ i = 1
    /\ headerComment = NoHeader
    /\ fs = EmptyFs
    /\ result = "none"
    /\ now = 0
    /\ second = FALSE
    /\ first = NoSnapshot
    /\ log = <<>>
    /\ renders = <<>>
    /\ fsAtCall = EmptyFs

(***************************************************************************)
(* Specifications                                                          *)
(***************************************************************************)
Init ==
    /\ nf = NfIdle
    /\ gf = GfIdle
    /\ options \in OptionsUniverse
    /\ tables \in TableLists
    /\ pc = IF tables = <<>> THEN "html" ELSE "render"
    /\ i = 1
    /\ headerComment = NoHeader
    /\ fs = EmptyFs
    /\ result = "none"
    /\ now = 0
    /\ second = FALSE
    /\ first = NoSnapshot
    /\ log = <<>>
    /\ renders = [k \in 1..Len(tables) |-> 0]
    /\ fsAtCall = fs

Next ==
    \/ RenderTable
    \/ SkipHtml
    \/ HtmlOpenFails
    \/ HtmlExecuteFails
    \/ WriteHtml
    \/ SkipModel
    \/ MkdirAllFails
    \/ EnsureModelDir
    \/ SaveSingleFile
    \/ SaveSingleFileFails
    \/ SaveTableFile
    \/ SaveTableFileFails
    \/ GenerateAgain

Spec == Init /\ [][Next]_vars

InitFields ==
    /\ nf = NfIdle
    /\ gf \in [pc : {"call"}, opts : TagOptions, fields : FieldLists, panic : {FALSE},
               cs : {<<>>}]
    /\ GenIdle

NextFields == goFieldsCall

SpecFields == InitFields /\ [][NextFields]_vars

InitFilter ==
    /\ nf \in [pc : {"call"}, prefix : FilterArgs, pattern : FilterArgs, ret : {NilFilter}]
    /\ gf = GfIdle
    /\ GenIdle

NextFilter == NewFilterCall

SpecFilter == InitFilter /\ [][NextFilter]_vars

(***************************************************************************)
(* Properties                                                              *)
(***************************************************************************)
AllSpace(s) == \A k \in 1..Len(s) : s[k] \in {" ", "\t", "\n", "\r"}

\* t is s without a run of white space at each end, and t has none at its ends
IsTrimOf(t, s) ==
    /\ \E a \in 0..Len(s) :
        /\ a + Len(t) <= Len(s)
        /\ t = SubSeq(s, a + 1, a + Len(t))
        /\ AllSpace(SubSeq(s, 1, a))
        /\ AllSpace(SubSeq(s, a + Len(t) + 1, Len(s)))
    /\ t # <<>> => ~AllSpace(<<t[1]>>) /\ ~AllSpace(<<t[Len(t)]>>)

\* C5: NewFilter returns nil exactly when the pattern is blank after trimming, whatever
\* the prefix; otherwise the Filter holds the trimmed prefix and the trimmed, non-empty
\* pattern.
NewFilterRejectsBlankPattern ==
    nf.pc = "returned" =>
        /\ nf.ret.isNil <=> AllSpace(nf.pattern)
        /\ ~nf.ret.isNil =>
            /\ IsTrimOf(nf.ret.TablePrefix, nf.prefix)
            /\ IsTrimOf(nf.ret.TableNamePattern, nf.pattern)
            /\ nf.ret.TableNamePattern # <<>>

NewFilterTrimmedBoth ==
    /\ nf.pc = "returned"
    /\ nf.prefix = <<" ", "t", "_">>
    /\ nf.pattern = <<"\t", "t", " ">>
    /\ nf.ret = [isNil |-> FALSE, TablePrefix |-> <<"t", "_">>, TableNamePattern |-> <<"t">>]

TagItems(c) == {k \in 1..Len(c) : c[k].kind = "Tag"}

TagOf(c) == IF TagItems(c) = {} THEN NoTag ELSE c[CHOOSE k \in TagItems(c) : TRUE].tag

GormTagShape(f, t) ==
    LET h == 2 + Len(f.Field) + Len(f.Type)
        d == IF f.Default # <<>> THEN 1 + Len(f.Default) ELSE 0
        n == IF f.Nullable THEN 0 ELSE 1
        p == IF f.Key = "PRI" THEN 1 ELSE 0
    IN  /\ Len(t) = h + d + n + p
        /\ t[1] = "column:"
        /\ SubSeq(t, 2, 1 + Len(f.Field)) = f.Field
        /\ t[2 + Len(f.Field)] = ";type:"
        /\ SubSeq(t, 3 + Len(f.Field), h) = f.Type
        /\ d > 0 => t[h + 1] = ";default:" /\ SubSeq(t, h + 2, h + d) = f.Default
        /\ n > 0 => t[h + d + 1] = ";not null"
        /\ p > 0 => t[h + d + n + 1] = ";primary_key"

IsIdColumn(f) ==
    /\ f.Field = <<"i", "d">>
    /\ f.Type = <<"i", "n", "t">>
    /\ f.Default = <<"0">>
    /\ ~f.Nullable
    /\ f.Key = "PRI"

IdColumnTag ==
    <<"column:", "i", "d", ";type:", "i", "n", "t", ";default:", "0", ";not null",
      ";primary_key">>

\* C1: with GenGormTag every field carries one gorm tag, column:<Field>;type:<Type> then
\* ;default:<Default> iff Default is non-empty, then ;not null iff not Nullable, then
\* ;primary_key iff Key is PRI, in that order; without GenGormTag there is no gorm tag.
GormTagFormat ==
    gf.pc = "returned" =>
        \A k \in 1..Len(gf.cs) :
            LET f == gf.fields[k]
                tag == TagOf(gf.cs[k])
            IN  /\ Cardinality(TagItems(gf.cs[k])) <= 1
                /\ ("gorm" \in DOMAIN tag) <=> gf.opts.GenGormTag
                /\ gf.opts.GenGormTag => GormTagShape(f, tag["gorm"])
                /\ gf.opts.GenGormTag /\ IsIdColumn(f) => tag["gorm"] = IdColumnTag

GormTagOfIdColumn ==
    /\ gf.pc = "returned"
    /\ gf.opts.GenGormTag
    /\ \E k \in 1..Len(gf.cs) :
        /\ IsIdColumn(gf.fields[k])
        /\ TagOf(gf.cs[k])["gorm"] = IdColumnTag

Canonical ==
    {"int", "uint", "int8", "uint8", "int16", "uint16", "int32", "uint32", "int64", "uint64",
     "string", "time.Time", "float32", "float64", "[]byte"}

Spelling(g) ==
    CASE g = "time.Time" -> <<"time", ".", "Time">>
      [] g = "[]byte" -> <<"[]", "byte">>
      [] OTHER -> <<g>>

RECURSIVE TypeText(_)
TypeText(c) ==
    IF c = <<>> THEN <<>>
    ELSE (IF Head(c).kind \in {"Op", "Type", "Qual"} THEN Head(c).text ELSE <<>>)
            \o TypeText(Tail(c))

\* C3: for every canonical GoType the emitted field type is the pointer over the base
\* type when the field is Nullable and the bare base type when it is not.
NullableIsPointer ==
    /\ gf.pc = "returned" =>
        /\ \A k \in 1..Len(gf.fields) : gf.fields[k].GoType \in Canonical
        /\ \A k \in 1..Len(gf.cs) :
            LET f == gf.fields[k]
            IN  TypeText(gf.cs[k]) =
                    (IF f.Nullable THEN <<"*">> ELSE <<>>) \o Spelling(f.GoType)
    /\ gf.pc = "panicked" => \E k \in 1..Len(gf.fields) : gf.fields[k].GoType \notin Canonical

NullableTimeAndBytes ==
    /\ gf.pc = "returned"
    /\ Len(gf.cs) = 2
    /\ gf.fields[1].GoType = "[]byte" /\ gf.fields[1].Nullable
    /\ gf.fields[2].GoType = "time.Time" /\ gf.fields[2].Nullable
    /\ TypeText(gf.cs[1]) = <<"*", "[]", "byte">>
    /\ TypeText(gf.cs[2]) = <<"*", "time", ".", "Time">>

\* C4: goFields emits one field per entry of the field list, the k-th emitted field
\* being the one built from the k-th entry: none dropped, duplicated or reordered.
FieldsKeepOrder ==
    gf.pc = "returned" =>
        /\ Len(gf.cs) = Len(gf.fields)
        /\ \A k \in 1..Len(gf.fields) :
            /\ gf.cs[k] = goField(gf.opts, gf.fields[k]).c
            /\ gf.cs[k][1] = Item("Id", TitleCase(gf.fields[k].Field))
            /\ gf.opts.GenGormTag =>
                    HasPrefix(TagOf(gf.cs[k])["gorm"], <<"column:">> \o gf.fields[k].Field)

TwoDistinctFieldsEmitted ==
    /\ gf.pc = "returned"
    /\ gf.opts.GenGormTag
    /\ Len(gf.fields) = 2
    /\ gf.fields[1].Field = <<"u", "_", "i", "d">>
    /\ gf.fields[2].Field = <<"i", "d">>
    /\ gf.cs[1][1].text = <<"U", "I", "d">>
    /\ gf.cs[2][1].text = <<"I", "d">>

Rendered(k) == tables[k].goStatement # <<>>

HasAccessor(c) == \E j \in 1..Len(c) : c[j].kind = "Keyword" /\ c[j].text = <<"func">>

AccessorName(c) == \E j \in 1..Len(c) : c[j].kind = "Id" /\ c[j].text = <<"TableName">>

ReturnedLiteral(c) == c[Len(c)].sub[1][1].sub[1][1]

AllCanonical(table) == \A k \in 1..Len(table.Fields) : table.Fields[k].GoType \in Canonical

\* C6: a field whose GoType is outside the enumeration makes rendering panic: no table
\* with such a field is ever rendered and Generate never returns with one among its
\* tables.
UnmappedTypePanics ==
    /\ \A k \in 1..Len(tables) : Rendered(k) => AllCanonical(tables[k])
    /\ pc \in {"html", "model", "save", "returned"} =>
            \A k \in 1..Len(tables) : AllCanonical(tables[k])
    /\ result = "panic" =>
        /\ ~AllCanonical(tables[i])
        /\ tables[i].GoStruct = <<>>
        /\ tables[i].goStatement = <<>>

PanicOnSecondTable ==
    /\ result = "panic"
    /\ pc = "panicked"
    /\ i = 2
    /\ Rendered(1)
    /\ ~AllCanonical(tables[2])

GoFiles == {q \in DOMAIN fs.files : fs.files[q].kind = "go"}

Timeless(files) ==
    [q \in DOMAIN files |-> [files[q] EXCEPT !.header = [@ EXCEPT !.time = 0]]]

Inputs(table) ==
    <<table.Name, table.Prefix, table.Comment, table.Fields>>

\* C9: Generate leaves Options and every Table's Name, Prefix, Comment and Fields as
\* they were; a table changes only by being rendered, at most once per call, and every
\* table has been rendered exactly once when the call returns.
RenderingIsTheOnlyWrite ==
    /\ [][/\ options' = options
          /\ Len(tables') = Len(tables)
          /\ \A k \in 1..Len(tables) :
                /\ Inputs(tables'[k]) = Inputs(tables[k])
                /\ tables'[k] # tables[k] => renders'[k] = renders[k] + 1]_vars
    /\ [](\A k \in 1..Len(tables) : renders[k] <= 1)
    /\ [](pc = "returned" => \A k \in 1..Len(tables) : renders[k] = 1)

BothTablesRenderedOnce ==
    /\ pc = "returned"
    /\ Len(tables) = 2
    /\ renders = <<1, 1>>
    /\ tables[1].Prefix # <<>>
    /\ Rendered(1) /\ Rendered(2)

\* C10: nothing is written before every table is rendered, so a rendering panic leaves
\* the filesystem as the run found it; the report is written before the directory and
\* the model files, and a failed report ends the run before any of them.
RenderBeforeAnyWrite ==
    /\ pc \in {"render", "panicked"} =>
        /\ log = <<>>
        /\ fs = fsAtCall
    /\ \A a, b \in 1..Len(log) :
        (log[a].op = "html" /\ log[b].op \in {"mkdir", "save"}) => a < b
    /\ result \in {"err:open", "err:execute"} =>
            \A k \in 1..Len(log) : log[k].op = "html"
    /\ log # <<>> => \A k \in 1..Len(tables) : renders[k] = 1

PanicLeavesNothing ==
    /\ result = "panic"
    /\ i = 2
    /\ options.HtmlFile # <<>>
    /\ options.ModelDir # <<>>
    /\ fs = EmptyFs
    /\ fsAtCall = EmptyFs

====
